---------------------------- MODULE Spec2Model ----------------------------
(***************************************************************************)
(* Model of main.py of scale_and_chord_generator: the static tables, the   *)
(* music-theory functions (generate_scale, generate_chord,                 *)
(* is_consonant_chord, generate_all_chords_for_scale,                      *)
(* generate_progression) and the batch driver (create_midi_files and the   *)
(* module-level loops).  Python lists are sequences; a Python index i is   *)
(* the sequence position i + 1.                                            *)
(***************************************************************************)
EXTENDS Integers, Sequences, FiniteSets, TLC

VARIABLES
    pc,           \* position of the batch driver
    note_i,       \* position of `for note in notes` (line 227)
    scale_i,      \* position of `for scale_type in scales.keys()` (line 228)
    root_note,    \* create_midi_files: parameter
    scale_type,   \* create_midi_files: parameter
    scale,        \* create_midi_files: local
    all_chords,   \* create_midi_files: local
    chord_i,      \* position of the chord loop (line 201)
    prog_i,       \* position of the progression loop (line 208)
    files,        \* the MIDI files saved so far, in order: [name, track]
    fn,           \* function-level runs: the function applied
    args,         \* function-level runs: its arguments
    ret           \* function-level runs: its outcome

vars == <<pc, note_i, scale_i, root_note, scale_type, scale, all_chords,
          chord_i, prog_i, files, fn, args, ret>>

batch_vars == <<pc, note_i, scale_i, root_note, scale_type, scale, all_chords,
                chord_i, prog_i, files>>

-----------------------------------------------------------------------------
(* Static tables (lines 11-93).  A dict is the sequence of its items in    *)
(* insertion order, which is the order Python iterates it in.              *)

notes == <<"C", "C#", "D", "D#", "E", "F", "F#", "G", "G#", "A", "A#", "B">>

scales ==
    << <<"major",          <<2, 2, 1, 2, 2, 2, 1>> >>,
       <<"natural_minor",  <<2, 1, 2, 2, 1, 2, 2>> >>,
       <<"harmonic_minor", <<2, 1, 2, 2, 1, 3, 1>> >>,
       <<"melodic_minor",  <<2, 1, 2, 2, 2, 2, 1>> >>,
       <<"dorian",         <<2, 1, 2, 2, 2, 1, 2>> >>,
       <<"phrygian",       <<1, 2, 2, 2, 1, 2, 2>> >>,
       <<"lydian",         <<2, 2, 2, 1, 2, 2, 1>> >>,
       <<"mixolydian",     <<2, 2, 1, 2, 2, 1, 2>> >>,
       <<"locrian",        <<1, 2, 2, 1, 2, 2, 2>> >> >>

chord_formulas ==
    << <<"major",        <<0, 4, 7>> >>,
       <<"major6",       <<0, 4, 7, 9>> >>,
       <<"major7",       <<0, 4, 7, 11>> >>,
       <<"major9",       <<0, 4, 7, 11, 14>> >>,
       <<"major11",      <<0, 4, 7, 11, 14, 17>> >>,
       <<"major13",      <<0, 4, 7, 11, 14, 17, 21>> >>,
       <<"minor",        <<0, 3, 7>> >>,
       <<"minor6",       <<0, 3, 7, 9>> >>,
       <<"minor7",       <<0, 3, 7, 10>> >>,
       <<"minor9",       <<0, 3, 7, 10, 14>> >>,
       <<"minor11",      <<0, 3, 7, 10, 14, 17>> >>,
       <<"minor13",      <<0, 3, 7, 10, 14, 17, 21>> >>,
       <<"dominant7",    <<0, 4, 7, 10>> >>,
       <<"dominant9",    <<0, 4, 7, 10, 14>> >>,
       <<"dominant11",   <<0, 4, 7, 10, 14, 17>> >>,
       <<"dominant13",   <<0, 4, 7, 10, 14, 17, 21>> >>,
       <<"augmented",    <<0, 4, 8>> >>,
       <<"augmented7",   <<0, 4, 8, 10>> >>,
       <<"augmented9",   <<0, 4, 8, 10, 14>> >>,
       <<"diminished",   <<0, 3, 6>> >>,
       <<"diminished7",  <<0, 3, 6, 9>> >>,
       <<"sus2",         <<0, 2, 7>> >>,
       <<"sus4",         <<0, 5, 7>> >>,
       <<"7#5",          <<0, 4, 8, 10>> >>,
       <<"7b5",          <<0, 4, 6, 10>> >>,
       <<"7#9",          <<0, 4, 7, 10, 15>> >>,
       <<"7b9",          <<0, 4, 7, 10, 13>> >>,
       <<"add9",         <<0, 4, 7, 14>> >>,
       <<"major7#11",    <<0, 4, 7, 11, 18>> >>,
       <<"minor_major7", <<0, 3, 7, 11>> >> >>

progressions ==
    << <<"I-V-ii-IV",            <<0, 4, 1, 3>> >>,
       <<"12-bar-blues",         <<0, 0, 0, 0, 3, 3, 0, 0, 4, 3, 0, 0>> >>,
       <<"I-IV-I-V-IV-I",        <<0, 3, 0, 4, 3, 0>> >>,
       <<"iii-vi-ii-V",          <<2, 5, 1, 4>> >>,
       <<"I-vi-ii-V",            <<0, 5, 1, 4>> >>,
       <<"I-vi-ii-V-I",          <<0, 5, 1, 4, 0>> >>,
       <<"I-V-vi-iii-IV-I-IV-V", <<0, 4, 5, 2, 3, 0, 3, 4>> >>,
       <<"I-IV-V",               <<0, 3, 4>> >>,
       <<"I-bVII-IV",            <<0, 10, 3>> >>,
       <<"I-V-vi-iii-IV-I-ii-V", <<0, 4, 5, 2, 3, 0, 1, 4>> >>,
       <<"ii-V-I",               <<1, 4, 0>> >>,
       <<"I-ii-IV-V",            <<0, 1, 3, 4>> >>,
       <<"ii-V-I-vi",            <<1, 4, 0, 5>> >>,
       <<"i-bVI-bVII",           <<0, 8, 10>> >>,
       <<"i-bVII-bVI-VII",       <<0, 10, 8, 11>> >>,
       <<"i-iv-v",               <<0, 3, 7>> >>,
       <<"I-IV-vi-V",            <<0, 3, 5, 4>> >>,
       <<"I-V-IV-I",             <<0, 4, 3, 0>> >>,
       <<"vi-IV-I-V",            <<5, 3, 0, 4>> >>,
       <<"I-IV-I-V",             <<0, 3, 0, 4>> >>,
       <<"I-V-IV",               <<0, 4, 3>> >>,
       <<"I-IV-V-IV",            <<0, 3, 4, 3>> >>,
       <<"I-IV-V-I",             <<0, 3, 4, 0>> >>,
       <<"I-vi-IV-V",            <<0, 5, 3, 4>> >> >>

\* consonant_intervals, the list of line 98
consonant_intervals == <<0, 3, 4, 7, 8, 9, 12>>

\* the octave: the modulus of lines 101, 113 and 121
Octave == 12

\* the middle-octave offset of lines 148, 162 and 216
MiddleOctave == 60

\* the slice bound of all_chords[:7], line 209
SlateLen == 7

-----------------------------------------------------------------------------
(* Python's list and dict operations, as the code uses them.               *)

Range(s) == {s[k] : k \in 1..Len(s)}

\* d.keys(): the keys in insertion order
DictKeys(d) == [k \in 1..Len(d) |-> d[k][1]]

\* d[key] for a key the dict holds
DictGet(d, key) == (CHOOSE item \in Range(d) : item[1] = key)[2]

\* lst.index(x): the first position holding x, 0-based
ListIndex(lst, x) ==
    (CHOOSE k \in 1..Len(lst) : lst[k] = x /\ \A m \in 1..(k - 1) : lst[m] # x) - 1

\* lst[i] raises IndexError outside [-len, len)
IndexInRange(lst, i) == -Len(lst) <= i /\ i < Len(lst)

\* lst[i]: a negative index counts from the end
ListGetItem(lst, i) == IF i >= 0 THEN lst[i + 1] ELSE lst[Len(lst) + i + 1]

\* lst[:n] for n >= 0
ListSlice(lst, n) == SubSeq(lst, 1, IF n < Len(lst) THEN n ELSE Len(lst))

\* note_to_midi, line 12
note_to_midi(note) == ListIndex(notes, note)

-----------------------------------------------------------------------------
(* The music-theory functions (lines 96-138).                              *)

\* the loops of is_consonant_chord from pair (i, j) on, 0-based (lines 99-104)
RECURSIVE consonant_scan(_, _, _)
consonant_scan(chord, i, j) ==
    IF i >= Len(chord) THEN TRUE
    ELSE IF j >= Len(chord) THEN consonant_scan(chord, i + 1, i + 2)
    ELSE LET interval == (chord[j + 1] - chord[i + 1]) % Octave
         IN  IF interval \notin Range(consonant_intervals)
             THEN FALSE
             ELSE consonant_scan(chord, i, j + 1)

\* a scan that takes the raw difference chord[j] - chord[i], without % 12
RECURSIVE consonant_scan_raw(_, _, _)
consonant_scan_raw(chord, i, j) ==
    IF i >= Len(chord) THEN TRUE
    ELSE IF j >= Len(chord) THEN consonant_scan_raw(chord, i + 1, i + 2)
    ELSE LET interval == chord[j + 1] - chord[i + 1]
         IN  IF interval \notin Range(consonant_intervals)
             THEN FALSE
             ELSE consonant_scan_raw(chord, i, j + 1)

is_consonant_chord_raw(chord) == consonant_scan_raw(chord, 0, 1)

\* a scan that compares neighbouring positions only
is_consonant_chord_adjacent(chord) ==
    \A i \in 1..(Len(chord) - 1) :
        ((chord[i + 1] - chord[i]) % Octave) \in Range(consonant_intervals)

is_consonant_chord(chord) == consonant_scan(chord, 0, 1)

\* the loop of generate_scale over the remaining intervals (lines 112-114)
RECURSIVE scale_walk(_, _, _)
scale_walk(acc, current_note, intervals) ==
    IF intervals = <<>> THEN acc
    ELSE LET next_note == (current_note + Head(intervals)) % Octave
         IN  scale_walk(Append(acc, notes[next_note + 1]), next_note, Tail(intervals))

\* a walk that adds every interval to the root instead of to the cursor
generate_scale_from_root(root, scale_name) ==
    LET intervals == DictGet(scales, scale_name)
    IN  <<root>> \o [k \in 1..Len(intervals) |->
                        notes[((ListIndex(notes, root) + intervals[k]) % Octave) + 1]]

generate_scale(root, scale_name) ==
    scale_walk(<<root>>, ListIndex(notes, root), DictGet(scales, scale_name))

\* the comprehension of generate_chord over the remaining offsets (line 121)
RECURSIVE chord_walk(_, _, _)
chord_walk(acc, root_index, formula) ==
    IF formula = <<>> THEN acc
    ELSE chord_walk(Append(acc, (root_index + Head(formula)) % Octave),
                    root_index, Tail(formula))

\* a chord whose notes are not reduced into the octave
generate_chord_unreduced(root, formula) ==
    [k \in 1..Len(formula) |-> ListIndex(notes, root) + formula[k]]

generate_chord(root, formula) == chord_walk(<<>>, ListIndex(notes, root), formula)

\* the loops of generate_all_chords_for_scale (lines 128-131): the item of
\* the n-th append, n counted from 1, is (root, chord_name, chord)
chord_item(a_scale, n) ==
    LET root == a_scale[((n - 1) \div Len(chord_formulas)) + 1]
        item == chord_formulas[((n - 1) % Len(chord_formulas)) + 1]
    IN  <<root, item[1], generate_chord(root, item[2])>>

\* a loop over the seven degrees only, leaving out the closing octave note
generate_all_chords_for_degrees(a_scale) ==
    [n \in 1..((Len(a_scale) - 1) * Len(chord_formulas)) |-> chord_item(a_scale, n)]

generate_all_chords_for_scale(a_scale) ==
    [n \in 1..(Len(a_scale) * Len(chord_formulas)) |-> chord_item(a_scale, n)]

\* an outcome of a call: the value returned, or the exception raised
Returned(v) == [raised |-> "none", value |-> v]
Raised(e) == [raised |-> e, value |-> <<>>]

\* the comprehension of generate_progression over the remaining pattern
\* (line 137): chords[i] raises IndexError at the first index out of range
RECURSIVE progression_walk(_, _, _)
progression_walk(acc, chords, pattern) ==
    IF pattern = <<>> THEN Returned(acc)
    ELSE IF ~IndexInRange(chords, Head(pattern)) THEN Raised("IndexError")
    ELSE progression_walk(Append(acc, ListGetItem(chords, Head(pattern))),
                          chords, Tail(pattern))

\* a progression that rejects every negative index
RECURSIVE progression_walk_nonneg(_, _, _)
progression_walk_nonneg(acc, chords, pattern) ==
    IF pattern = <<>> THEN Returned(acc)
    ELSE IF Head(pattern) < 0 \/ Head(pattern) >= Len(chords) THEN Raised("IndexError")
    ELSE progression_walk_nonneg(Append(acc, chords[Head(pattern) + 1]),
                                 chords, Tail(pattern))

generate_progression_nonneg(chords, pattern) ==
    progression_walk_nonneg(<<>>, chords, pattern)

\* a progression that skips an index equal to the one before it
RECURSIVE progression_walk_norepeat(_, _, _, _)
progression_walk_norepeat(acc, chords, pattern, last) ==
    IF pattern = <<>> THEN Returned(acc)
    ELSE IF ~IndexInRange(chords, Head(pattern)) THEN Raised("IndexError")
    ELSE progression_walk_norepeat(
             IF <<Head(pattern)>> = last THEN acc
             ELSE Append(acc, ListGetItem(chords, Head(pattern))),
             chords, Tail(pattern), <<Head(pattern)>>)

generate_progression_norepeat(chords, pattern) ==
    progression_walk_norepeat(<<>>, chords, pattern, <<>>)

generate_progression(chords, pattern) == progression_walk(<<>>, chords, pattern)

-----------------------------------------------------------------------------
(* The batch driver (lines 141-231).  The converters called by             *)
(* create_files_from_midi read the saved MIDI file and write beside it;    *)
(* a saved file stands for its whole asset set.                            *)

\* the notes a track plays for a list of pitch classes (lines 147-150, 215-218)
chord_track(chord) == [k \in 1..Len(chord) |-> chord[k] + MiddleOctave]

\* the notes a track plays for a scale (lines 161-164)
scale_track(a_scale) == [k \in 1..Len(a_scale) |-> note_to_midi(a_scale[k]) + MiddleOctave]

\* the notes of a progression's track, chord after chord (lines 214-218)
RECURSIVE progression_track(_)
progression_track(progression) ==
    IF progression = <<>> THEN <<>>
    ELSE chord_track(Head(progression)) \o progression_track(Tail(progression))

\* the directories of lines 190-192
base_dir(root, scale_name) == "output/" \o root \o "_" \o scale_name
chords_dir(root, scale_name) == base_dir(root, scale_name) \o "/Chords"
progressions_dir(root, scale_name) == base_dir(root, scale_name) \o "/Progressions"

\* a saved MIDI file: its directory, its name without extension, its track
MidiFile(dir, name, track) == [dir |-> dir, name |-> name, track |-> track]

\* [chord for _, _, chord in all_chords[:7]], line 209
chord_slate(chord_items) ==
    LET first == ListSlice(chord_items, SlateLen)
    IN  [k \in 1..Len(first) |-> first[k][3]]

\* no call made, or a call that has not returned yet
Pending == Raised("pending")

\* `for note in notes` (line 227) and the print after it (line 231)
NoteLoop ==
    /\ pc = "note_loop"
    /\ IF note_i < Len(notes)
       THEN /\ note_i' = note_i + 1
            /\ scale_i' = 0
            /\ pc' = "scale_loop"
       ELSE /\ pc' = "done"
            /\ UNCHANGED <<note_i, scale_i>>
    /\ UNCHANGED <<root_note, scale_type, scale, all_chords, chord_i, prog_i, files>>
    /\ UNCHANGED <<fn, args, ret>>

\* `for scale_type in scales.keys()` and the call of line 229
ScaleLoop ==
    /\ pc = "scale_loop"
    /\ IF scale_i < Len(DictKeys(scales))
       THEN /\ scale_i' = scale_i + 1
            /\ root_note' = notes[note_i]
            /\ scale_type' = DictKeys(scales)[scale_i + 1]
            /\ pc' = "create_midi_files"
       ELSE /\ pc' = "note_loop"
            /\ UNCHANGED <<scale_i, root_note, scale_type>>
    /\ UNCHANGED <<note_i, scale, all_chords, chord_i, prog_i, files>>
    /\ UNCHANGED <<fn, args, ret>>

\* create_midi_files up to its chord loop (lines 186-198)
CreateMidiFiles ==
    /\ pc = "create_midi_files"
    /\ scale' = generate_scale(root_note, scale_type)
    /\ all_chords' = generate_all_chords_for_scale(scale')
    /\ files' = Append(files, MidiFile(base_dir(root_note, scale_type),
                                       root_note \o "_" \o scale_type,
                                       scale_track(scale')))
    /\ chord_i' = 0
    /\ pc' = "chord_loop"
    /\ UNCHANGED <<note_i, scale_i, root_note, scale_type, prog_i>>
    /\ UNCHANGED <<fn, args, ret>>

\* one pass of `for root, chord_name, chord in all_chords` (lines 201-205)
ChordLoop ==
    /\ pc = "chord_loop"
    /\ IF chord_i < Len(all_chords)
       THEN LET root == all_chords[chord_i + 1][1]
                chord_name == all_chords[chord_i + 1][2]
                chord == all_chords[chord_i + 1][3]
            IN  /\ files' = IF is_consonant_chord(chord)
                            THEN Append(files, MidiFile(chords_dir(root_note, scale_type),
                                                        root \o "_" \o chord_name,
                                                        chord_track(chord)))
                            ELSE files
                /\ chord_i' = chord_i + 1
                /\ UNCHANGED <<pc, prog_i>>
       ELSE /\ pc' = "progression_loop"
            /\ prog_i' = 0
            /\ UNCHANGED <<chord_i, files>>
    /\ UNCHANGED <<note_i, scale_i, root_note, scale_type, scale, all_chords>>
    /\ UNCHANGED <<fn, args, ret>>

\* one pass of `for progression_name, pattern in progressions.items()`
\* (lines 208-222); an exception of generate_progression is caught nowhere
\* and ends the run
ProgressionLoop ==
    /\ pc = "progression_loop"
    /\ IF prog_i < Len(progressions)
       THEN LET progression_name == progressions[prog_i + 1][1]
                pattern == progressions[prog_i + 1][2]
                outcome == generate_progression(chord_slate(all_chords), pattern)
            IN  IF outcome.raised # "none"
                THEN /\ pc' = outcome.raised
                     /\ UNCHANGED <<prog_i, files>>
                ELSE /\ files' = Append(files,
                                    MidiFile(progressions_dir(root_note, scale_type),
                                             progression_name,
                                             progression_track(outcome.value)))
                     /\ prog_i' = prog_i + 1
                     /\ UNCHANGED pc
       ELSE /\ pc' = "scale_loop"
            /\ UNCHANGED <<prog_i, files>>
    /\ UNCHANGED <<note_i, scale_i, root_note, scale_type, scale, all_chords, chord_i>>
    /\ UNCHANGED <<fn, args, ret>>

\* the state as the module-level loop starts (line 227)
Init ==
    /\ pc = "note_loop"
    /\ note_i = 0
    /\ scale_i = 0
    /\ root_note = ""
    /\ scale_type = ""
    /\ scale = <<>>
    /\ all_chords = <<>>
    /\ chord_i = 0
    /\ prog_i = 0
    /\ files = <<>>
    /\ fn = "none"
    /\ args = <<>>
    /\ ret = Pending

Next == NoteLoop \/ ScaleLoop \/ CreateMidiFiles \/ ChordLoop \/ ProgressionLoop

\* the batch run
Spec == Init /\ [][Next]_vars

\* one call create_midi_files(root_note, scale_type), on any registered pair
PairInit ==
    /\ pc = "create_midi_files"
    /\ note_i = 0
    /\ scale_i = 0
    /\ root_note \in Range(notes)
    /\ scale_type \in Range(DictKeys(scales))
    /\ scale = <<>>
    /\ all_chords = <<>>
    /\ chord_i = 0
    /\ prog_i = 0
    /\ files = <<>>
    /\ fn = "none"
    /\ args = <<>>
    /\ ret = Pending

PairNext == CreateMidiFiles \/ ChordLoop \/ ProgressionLoop

PairSpec == PairInit /\ [][PairNext]_vars

-----------------------------------------------------------------------------
(* Function-level runs: one call of one function of lines 96-138 on an     *)
(* input drawn from a bounded set.                                         *)

\* largest note value of an enumerated chord
MaxPitch == 13

\* longest enumerated chord
MaxChordLen == 3

\* largest absolute value of an enumerated pattern index
MaxIndex == 8

\* longest enumerated pattern
MaxPatternLen == 2

\* longest chord list handed to generate_progression
MaxChords == 7

BoundedSeqs(S, n) == UNION {[1..m -> S] : m \in 0..n}

Formulas == {item[2] : item \in Range(chord_formulas)}

\* chords handed to is_consonant_chord: the registered formulas, every
\* chord generate_chord builds from them, and every short note list
ChordInputs ==
    Formulas
    \cup {generate_chord(r, f) : r \in Range(notes), f \in Formulas}
    \cup BoundedSeqs(0..MaxPitch, MaxChordLen)

\* chord lists handed to generate_progression: the leading chords of the
\* chord list of C major, which are pairwise different
ChordListInputs ==
    LET items == generate_all_chords_for_scale(generate_scale("C", "major"))
    IN  {[k \in 1..n |-> items[k][3]] : n \in 0..MaxChords}

\* patterns handed to generate_progression: the registered ones and every
\* short list of indices, negative ones included
PatternInputs ==
    {item[2] : item \in Range(progressions)}
    \cup BoundedSeqs((-MaxIndex)..MaxIndex, MaxPatternLen)

FnInit ==
    /\ pc = "function"
    /\ note_i = 0
    /\ scale_i = 0
    /\ root_note = ""
    /\ scale_type = ""
    /\ scale = <<>>
    /\ all_chords = <<>>
    /\ chord_i = 0
    /\ prog_i = 0
    /\ files = <<>>
    /\ ret = Pending
    /\ \/ /\ fn = "generate_scale"
          /\ args \in Range(notes) \X Range(DictKeys(scales))
       \/ /\ fn = "generate_chord"
          /\ args \in Range(notes) \X Formulas
       \/ /\ fn = "is_consonant_chord"
          /\ args \in {<<c>> : c \in ChordInputs}
       \/ /\ fn = "generate_progression"
          /\ args \in ChordListInputs \X PatternInputs

ApplyGenerateScale ==
    /\ fn = "generate_scale"
    /\ ret = Pending
    /\ ret' = Returned(generate_scale(args[1], args[2]))
    /\ UNCHANGED <<fn, args>>
    /\ UNCHANGED batch_vars

ApplyGenerateChord ==
    /\ fn = "generate_chord"
    /\ ret = Pending
    /\ ret' = Returned(generate_chord(args[1], args[2]))
    /\ UNCHANGED <<fn, args>>
    /\ UNCHANGED batch_vars

ApplyIsConsonantChord ==
    /\ fn = "is_consonant_chord"
    /\ ret = Pending
    /\ ret' = Returned(is_consonant_chord(args[1]))
    /\ UNCHANGED <<fn, args>>
    /\ UNCHANGED batch_vars

ApplyGenerateProgression ==
    /\ fn = "generate_progression"
    /\ ret = Pending
    /\ ret' = generate_progression(args[1], args[2])
    /\ UNCHANGED <<fn, args>>
    /\ UNCHANGED batch_vars

FnNext ==
    \/ ApplyGenerateScale
    \/ ApplyGenerateChord
    \/ ApplyIsConsonantChord
    \/ ApplyGenerateProgression

FnSpec == FnInit /\ [][FnNext]_vars

-----------------------------------------------------------------------------
(* Operators the properties are stated with.                               *)

Done == ret.raised # "pending"

\* the sum of the first k entries of a sequence of numbers
RECURSIVE SumFirst(_, _)
SumFirst(s, k) == IF k = 0 THEN 0 ELSE SumFirst(s, k - 1) + s[k]

\* every pair of positions i < j is a consonant interval apart
PairwiseConsonant(chord) ==
    \A i \in 1..Len(chord) : \A j \in (i + 1)..Len(chord) :
        ((chord[j] - chord[i]) % 12) \in {0, 3, 4, 7, 8, 9}

\* the sequence s without position i
Without(s, i) == SubSeq(s, 1, i - 1) \o SubSeq(s, i + 1, Len(s))

\* every reordering of a sequence
RECURSIVE Reorderings(_)
Reorderings(s) ==
    IF s = <<>> THEN {<<>>}
    ELSE UNION {{<<s[i]>> \o p : p \in Reorderings(Without(s, i))} : i \in 1..Len(s)}

\* how many positions of s hold x
Count(s, x) == Cardinality({k \in 1..Len(s) : s[k] = x})

\* the chord files create_midi_files has saved for the current pair, in order
ChordWrites == SelectSeq(files, LAMBDA f : f.dir = chords_dir(root_note, scale_type))

\* the all_chords items the chord loop has passed
ItemsPassed == SubSeq(all_chords, 1, chord_i)

BluesPattern == <<0, 0, 0, 0, 3, 3, 0, 0, 4, 3, 0, 0>>

-----------------------------------------------------------------------------
(* C1: the batch run goes through every (root, scale type) pair and no   *)
(* step of it fails, so it reaches the final success message of line 231: *)
(* the run never stops anywhere but after that message.                   *)
C1_RunStopsOnlyAfterSuccess == pc = "done" \/ ENABLED Next

(* C2: for every canonical root and registered scale type, generate_scale *)
(* returns 8 note names: entry 0 is the root, entry k (1..7) names the    *)
(* pitch class (root + sum of the first k steps) mod 12, and entry 7 is   *)
(* the root again.                                                        *)
C2_ScaleShape ==
    (fn = "generate_scale" /\ Done) =>
        LET root == args[1]
            steps == DictGet(scales, args[2])
            s == ret.value
        IN  /\ ret.raised = "none"
            /\ Len(s) = 8
            /\ s[1] = root
            /\ \A k \in 1..7 :
                   s[k + 1] = notes[((ListIndex(notes, root) + SumFirst(steps, k)) % 12) + 1]
            /\ s[8] = root

C2_Witness ==
    /\ fn = "generate_scale" /\ Done
    /\ args = <<"A#", "harmonic_minor">>
    /\ ret.value = <<"A#", "C", "C#", "D#", "F", "F#", "A", "A#">>

(* C3: for every canonical root and registered formula, generate_chord    *)
(* returns a sequence as long as the formula whose k-th element is        *)
(* (pitch class of root + formula[k]) mod 12, in formula order, nothing   *)
(* dropped or deduplicated, every element in [0, 12).                     *)
C3_ChordShape ==
    (fn = "generate_chord" /\ Done) =>
        LET root == args[1]
            formula == args[2]
            c == ret.value
        IN  /\ ret.raised = "none"
            /\ Len(c) = Len(formula)
            /\ \A k \in 1..Len(formula) :
                   /\ c[k] = (ListIndex(notes, root) + formula[k]) % 12
                   /\ c[k] \in 0..11

C3_Witness ==
    /\ fn = "generate_chord" /\ Done
    /\ args = <<"B", <<0, 4, 7, 11, 14, 17, 21>> >>
    /\ ret.value = <<11, 3, 6, 10, 1, 4, 8>>

(* C4: is_consonant_chord returns true exactly when every pair of         *)
(* positions i < j has (chord[j] - chord[i]) mod 12 in {0,3,4,7,8,9};     *)
(* it is true for [0,4,7] and false for [0,4,7,10,15].                    *)
C4_ConsonantExactly ==
    (fn = "is_consonant_chord" /\ Done) =>
        /\ ret.raised = "none"
        /\ ret.value = PairwiseConsonant(args[1])
        /\ args[1] = <<0, 4, 7>> => ret.value = TRUE
        /\ args[1] = <<0, 4, 7, 10, 15>> => ret.value = FALSE

C4_Witness ==
    /\ fn = "is_consonant_chord" /\ Done
    /\ args[1] = <<0, 4, 7, 10, 15>>
    /\ ret.value = FALSE

(* C5: is_consonant_chord gives the same result on every reordering of    *)
(* its input.                                                             *)
C5_OrderIndependent ==
    (fn = "is_consonant_chord" /\ Done) =>
        \A p \in Reorderings(args[1]) : is_consonant_chord(p) = ret.value

(* C6, as claimed: generate_progression fails with IndexError whenever an *)
(* index of the pattern lies outside [0, len(chords)), negative indices   *)
(* included.                                                              *)
C6_FailsOutsideZeroToLen ==
    (fn = "generate_progression" /\ Done) =>
        ((\E k \in 1..Len(args[2]) : args[2][k] < 0 \/ args[2][k] >= Len(args[1]))
            => ret.raised = "IndexError")

(* C6, amended: generate_progression fails with IndexError exactly when   *)
(* an index of the pattern lies outside [-len(chords), len(chords)), as   *)
(* index 7 against 7 chords does, and returns no progression then; an     *)
(* index i in [-len(chords), 0) does not fail and selects                 *)
(* chords[len(chords) + i].                                               *)
C6_FailsOutsidePythonRange ==
    (fn = "generate_progression" /\ Done) =>
        LET chords == args[1]
            pattern == args[2]
            n == Len(chords)
        IN  /\ ret.raised = "IndexError"
                <=> \E k \in 1..Len(pattern) : pattern[k] < -n \/ pattern[k] >= n
            /\ ret.raised = "IndexError" => ret.value = <<>>
            /\ ret.raised # "IndexError" =>
                   /\ ret.raised = "none"
                   /\ Len(ret.value) = Len(pattern)
                   /\ \A k \in 1..Len(pattern) :
                          ret.value[k] = IF pattern[k] < 0
                                         THEN chords[n + pattern[k] + 1]
                                         ELSE chords[pattern[k] + 1]

C6_Witness ==
    /\ fn = "generate_progression" /\ Done
    /\ Len(args[1]) = 7
    /\ args[2] = <<-1, 7>>
    /\ ret.raised = "IndexError"

(* C7: the 7-chord slate handed to generate_progression holds one chord   *)
(* per scale degree: for k in 0..6 its k-th chord is built on the k-th    *)
(* note of the generated scale.                                           *)
C7_SlateChordPerDegree ==
    pc = "progression_loop" =>
        /\ Len(chord_slate(all_chords)) = 7
        /\ \A k \in 1..7 :
               \E f \in Formulas : chord_slate(all_chords)[k] = generate_chord(scale[k], f)

(* C8: for a pattern whose indices all lie in [0, len(chords)),           *)
(* generate_progression returns a sequence as long as the pattern whose   *)
(* k-th element is chords[pattern[k]], repeats included; the 12-bar-blues *)
(* pattern on 7 chords gives 12 elements: chords[0] eight times,          *)
(* chords[3] three times, chords[4] once.                                 *)
C8_ProgressionFollowsPattern ==
    (/\ fn = "generate_progression" /\ Done
     /\ \A k \in 1..Len(args[2]) : 0 <= args[2][k] /\ args[2][k] < Len(args[1])) =>
        LET chords == args[1]
            pattern == args[2]
        IN  /\ ret.raised = "none"
            /\ Len(ret.value) = Len(pattern)
            /\ \A k \in 1..Len(pattern) : ret.value[k] = chords[pattern[k] + 1]
            /\ (pattern = BluesPattern /\ Len(chords) = 7) =>
                   /\ Len(ret.value) = 12
                   /\ Count(ret.value, chords[1]) = 8
                   /\ Count(ret.value, chords[4]) = 3
                   /\ Count(ret.value, chords[5]) = 1

C8_Witness ==
    /\ fn = "generate_progression" /\ Done
    /\ Len(args[1]) = 7
    /\ args[2] = BluesPattern
    /\ Len(ret.value) = 12

(* C9, as claimed: during one pair's chord loop a chord asset             *)
(* {root}_{chordName} is written only for a chord that passes             *)
(* is_consonant_chord, one per consonant chord, and no asset name is      *)
(* written more than once.                                                *)
C9_ChordAssetWrittenOnce ==
    LET writes == ChordWrites
        consonant == SelectSeq(ItemsPassed, LAMBDA item : PairwiseConsonant(item[3]))
    IN  /\ Len(writes) = Len(consonant)
        /\ \A w \in 1..Len(writes) :
               writes[w].name = consonant[w][1] \o "_" \o consonant[w][2]
        /\ \A v, w \in 1..Len(writes) : writes[v].name = writes[w].name => v = w

(* C9, amended: during one pair's chord loop a chord asset                *)
(* {root}_{chordName} is written only for a chord that passes             *)
(* is_consonant_chord, one write per consonant chord of the chord list;   *)
(* an asset name is written at most twice, and twice only for a chord on  *)
(* the pair's root note, which the 8-note scale holds at degree 0 and     *)
(* again at degree 7: both writes carry the same notes, and once the loop *)
(* has ended every consonant chord on the root has been written twice.    *)
C9_ChordAssetWrittenTwiceOnRootOnly ==
    LET writes == ChordWrites
        consonant == SelectSeq(ItemsPassed, LAMBDA item : PairwiseConsonant(item[3]))
        root_names == {root_note \o "_" \o item[1] : item \in Range(chord_formulas)}
    IN  /\ Len(writes) = Len(consonant)
        /\ \A w \in 1..Len(writes) :
               /\ writes[w].name = consonant[w][1] \o "_" \o consonant[w][2]
               /\ writes[w].track = chord_track(consonant[w][3])
        /\ \A v, w \in 1..Len(writes) :
               (v < w /\ writes[v].name = writes[w].name) =>
                   /\ writes[w].name \in root_names
                   /\ writes[v].track = writes[w].track
                   /\ \A u \in 1..Len(writes) :
                          writes[u].name = writes[w].name => u \in {v, w}
        /\ pc = "progression_loop" =>
               \A item \in Range(chord_formulas) :
                   PairwiseConsonant(generate_chord(root_note, item[2])) =>
                       Cardinality({w \in 1..Len(writes) :
                                       writes[w].name = root_note \o "_" \o item[1]}) = 2

C9_Witness ==
    /\ pc = "progression_loop"
    /\ root_note = "F#"
    /\ \E v, w \in 1..Len(ChordWrites) :
           /\ v < w
           /\ ChordWrites[v].name = "F#_minor"
           /\ ChordWrites[w].name = "F#_minor"

(* C10: whether a generated chord is consonant does not depend on its     *)
(* root: for every registered formula and every two canonical roots       *)
(* is_consonant_chord agrees on the two generated chords, and among the   *)
(* registered formulas it is true exactly for major, minor and augmented. *)
C10_ConsonanceRootIndependent ==
    (fn = "generate_chord" /\ Done) =>
        /\ \A r \in Range(notes) :
               is_consonant_chord(generate_chord(r, args[2])) = is_consonant_chord(ret.value)
        /\ \A item \in Range(chord_formulas) :
               item[2] = args[2] =>
                   (is_consonant_chord(ret.value)
                        <=> item[1] \in {"major", "minor", "augmented"})

C10_Witness ==
    /\ fn = "generate_chord" /\ Done
    /\ args = <<"A", <<0, 4, 7>> >>
    /\ ret.value = <<9, 1, 4>>
    /\ is_consonant_chord(ret.value)

=============================================================================
